---- MODULE Spec2Model ----
(***************************************************************************)
(* Model of src/slack-send.js: the slackSend(core) entry point of the      *)
(* Slack GitHub action.  One invocation resolves a payload, selects the    *)
(* token or the webhook transport, issues the network operations and       *)
(* reports outputs or a failure signal through the `core` object.          *)
(*                                                                         *)
(* JavaScript strings are modelled as sequences of lexemes (a lexeme is a  *)
(* character, or a multi-character unit that the code never splits, such   *)
(* as "null", "${{" or "github.ref").  JSON values are tagged records.     *)
(***************************************************************************)
EXTENDS Integers, Sequences, FiniteSets, TLC

(***************************************************************************)
(* Bounds                                                                  *)
(***************************************************************************)
\* longest channel-id input, in lexemes
MaxChanLen == 3

(***************************************************************************)
(* JavaScript values                                                       *)
(***************************************************************************)
JNull == [t |-> "null"]
JBool(b) == [t |-> "bool", b |-> b]
JNum(n) == [t |-> "num", n |-> n]
JStr(s) == [t |-> "str", s |-> s]
JArr(a) == [t |-> "arr", a |-> a]
JObj(f) == [t |-> "obj", f |-> f]

\* the empty function, i.e. the fields of the object literal {}
EmptyFields == [k \in {} |-> JNull]

\* JavaScript truthiness of a parsed value: null, false, 0 and "" are falsy
Truthy(v) ==
  CASE v.t = "null" -> FALSE
    [] v.t = "bool" -> v.b
    [] v.t = "num" -> v.n # 0
    [] v.t = "str" -> v.s # <<>>
    [] OTHER -> TRUE

\* the own enumerable properties copied by the spread {...v}
Spread(v) ==
  CASE v.t = "obj" -> v.f
    [] v.t = "arr" -> [k \in {ToString(i - 1) : i \in 1..Len(v.a)} |->
                         v.a[CHOOSE i \in 1..Len(v.a) : ToString(i - 1) = k]]
    [] v.t = "str" -> [k \in {ToString(i - 1) : i \in 1..Len(v.s)} |->
                         JStr(<<v.s[CHOOSE i \in 1..Len(v.s) : ToString(i - 1) = k]>>)]
    [] OTHER -> EmptyFields

(***************************************************************************)
(* String helpers                                                          *)
(***************************************************************************)
RECURSIVE Concat(_)
\* the lexemes of a string joined into one key
Concat(s) == IF s = <<>> THEN "" ELSE Head(s) \o Concat(Tail(s))

RECURSIVE TrimLeft(_)
TrimLeft(s) == IF s # <<>> /\ Head(s) = " " THEN TrimLeft(Tail(s)) ELSE s

RECURSIVE TrimRight(_)
TrimRight(s) ==
  IF s # <<>> /\ s[Len(s)] = " " THEN TrimRight(SubSeq(s, 1, Len(s) - 1)) ELSE s

\* String.prototype.trim
Trim(s) == TrimRight(TrimLeft(s))

RECURSIVE SplitFrom(_, _)
\* the pieces of s between commas, cur being the piece read so far
SplitFrom(s, cur) ==
  IF s = <<>> THEN <<cur>>
  ELSE IF Head(s) = "," THEN <<cur>> \o SplitFrom(Tail(s), <<>>)
  ELSE SplitFrom(Tail(s), Append(cur, Head(s)))

\* String.prototype.split(','): the empty string yields one empty piece
SplitComma(s) == SplitFrom(s, <<>>)

\* String.prototype.toUpperCase on the lexemes of the webhook type
UpperLexeme(c) ==
  CASE c = "workflow_trigger" -> "WORKFLOW_TRIGGER"
    [] c = "Workflow_Trigger" -> "WORKFLOW_TRIGGER"
    [] c = "incoming_webhook" -> "INCOMING_WEBHOOK"
    [] c = "Incoming_Webhook" -> "INCOMING_WEBHOOK"
    [] c = "other" -> "OTHER"
    [] OTHER -> c

\* ToUpperCase that leaves the letters as they are
ToUpperCase_none(s) == s

ToUpperCase(s) == [i \in 1..Len(s) |-> UpperLexeme(s[i])]

(***************************************************************************)
(* JSON.parse over lexeme sequences                                        *)
(***************************************************************************)
Digits == {"0", "1", "2", "3"}

DigitValue(c) == CASE c = "0" -> 0 [] c = "1" -> 1 [] c = "2" -> 2 [] OTHER -> 3

ParseFail == [ok |-> FALSE, val |-> JNull, next |-> 0]
ParseOk(v, n) == [ok |-> TRUE, val |-> v, next |-> n]

RECURSIVE SkipWs(_, _)
\* index of the first non-blank lexeme of t at or after i
SkipWs(t, i) == IF i <= Len(t) /\ t[i] = " " THEN SkipWs(t, i + 1) ELSE i

RECURSIVE FindQuote(_, _)
\* index of the first quote of t at or after i, or 0
FindQuote(t, i) ==
  IF i > Len(t) THEN 0 ELSE IF t[i] = "\"" THEN i ELSE FindQuote(t, i + 1)

\* a string literal starting at the quote t[i]
ParseString(t, i) ==
  LET j == FindQuote(t, i + 1)
  IN IF j = 0 THEN ParseFail ELSE ParseOk(JStr(SubSeq(t, i + 1, j - 1)), j + 1)

RECURSIVE ParseValue(_, _)
RECURSIVE ParseElems(_, _, _)
RECURSIVE ParseMembers(_, _, _)

\* the elements of an array after "[" or ",", acc being those read so far
ParseElems(t, i, acc) ==
  LET r == ParseValue(t, i)
  IN IF ~r.ok THEN ParseFail
     ELSE LET j == SkipWs(t, r.next)
          IN IF j > Len(t) THEN ParseFail
             ELSE IF t[j] = "," THEN ParseElems(t, j + 1, Append(acc, r.val))
             ELSE IF t[j] = "]" THEN ParseOk(JArr(Append(acc, r.val)), j + 1)
             ELSE ParseFail

\* the members of an object after "{" or ",", acc being those read so far;
\* a repeated key keeps its last value
ParseMembers(t, i, acc) ==
  LET j == SkipWs(t, i)
  IN IF j > Len(t) \/ t[j] # "\"" THEN ParseFail
     ELSE LET k == ParseString(t, j)
          IN IF ~k.ok THEN ParseFail
             ELSE LET c == SkipWs(t, k.next)
                  IN IF c > Len(t) \/ t[c] # ":" THEN ParseFail
                     ELSE LET r == ParseValue(t, c + 1)
                          IN IF ~r.ok THEN ParseFail
                             ELSE LET e == SkipWs(t, r.next)
                                      f == (Concat(k.val.s) :> r.val) @@ acc
                                  IN IF e > Len(t) THEN ParseFail
                                     ELSE IF t[e] = "," THEN ParseMembers(t, e + 1, f)
                                     ELSE IF t[e] = "}" THEN ParseOk(JObj(f), e + 1)
                                     ELSE ParseFail

ParseValue(t, i) ==
  LET j == SkipWs(t, i)
  IN IF j > Len(t) THEN ParseFail
     ELSE CASE t[j] = "null" -> ParseOk(JNull, j + 1)
            [] t[j] = "true" -> ParseOk(JBool(TRUE), j + 1)
            [] t[j] = "false" -> ParseOk(JBool(FALSE), j + 1)
            [] t[j] \in Digits -> ParseOk(JNum(DigitValue(t[j])), j + 1)
            [] t[j] = "\"" -> ParseString(t, j)
            [] t[j] = "[" ->
                 LET e == SkipWs(t, j + 1)
                 IN IF e <= Len(t) /\ t[e] = "]" THEN ParseOk(JArr(<<>>), e + 1)
                    ELSE ParseElems(t, j + 1, <<>>)
            [] t[j] = "{" ->
                 LET e == SkipWs(t, j + 1)
                 IN IF e <= Len(t) /\ t[e] = "}" THEN ParseOk(JObj(EmptyFields), e + 1)
                    ELSE ParseMembers(t, j + 1, EmptyFields)
            [] OTHER -> ParseFail

\* JSON.parse: one value, blanks around it, nothing after it
JSONParse(t) ==
  LET r == ParseValue(t, 1)
  IN IF r.ok /\ SkipWs(t, r.next) > Len(t) THEN [ok |-> TRUE, val |-> r.val]
     ELSE [ok |-> FALSE, val |-> JNull]

(***************************************************************************)
(* Template substitution                                                   *)
(***************************************************************************)
\* String.prototype.replaceAll('${{', '{{')
ReplaceAll(t) == [i \in 1..Len(t) |-> IF t[i] = "${{" THEN "{{" ELSE t[i]]

\* the text that the rendering context { github, env } gives for a path
ContextValue(name) ==
  CASE name = "github.ref" -> <<"m", "a", "i", "n">>
    [] name = "env.QUOTE" -> <<"\"">>
    [] name = "env.EMPTY" -> <<>>
    [] OTHER -> <<"?", "?", "?">>

RECURSIVE FindClose(_, _)
\* index of the first "}}" of t at or after i, or 0
FindClose(t, i) ==
  IF i > Len(t) THEN 0 ELSE IF t[i] = "}}" THEN i ELSE FindClose(t, i + 1)

RECURSIVE MarkUp(_)
\* markup.up: every {{ path }} tag is replaced by the context's text for it
MarkUp(t) ==
  IF t = <<>> THEN <<>>
  ELSE IF Head(t) = "{{" /\ FindClose(t, 2) # 0
       THEN LET j == FindClose(t, 2)
            IN ContextValue(Concat(Trim(SubSeq(t, 2, j - 1))))
                 \o MarkUp(SubSeq(t, j + 1, Len(t)))
       ELSE <<Head(t)>> \o MarkUp(Tail(t))

(***************************************************************************)
(* Payload shaping for Workflow Builder webhooks                           *)
(***************************************************************************)
\* a nested key: prev + '.' + key, or the key alone at the top level
JoinKey(prev, key) == IF prev = "" THEN key ELSE prev \o "." \o key

RECURSIVE FlatPairs(_, _)
\* the (path, leaf) pairs of flatten's walk; an empty object or array is a leaf
FlatPairs(v, prev) ==
  UNION { LET c == Spread(v)[k]
              nk == JoinKey(prev, k)
          IN IF c.t \in {"obj", "arr"} /\ DOMAIN Spread(c) # {}
             THEN FlatPairs(c, nk)
             ELSE {<<nk, c>>}
          : k \in DOMAIN Spread(v) }

\* flatten(payload) of the flat package
Flatten(v) ==
  LET ps == FlatPairs(v, "")
  IN [k \in {p[1] : p \in ps} |-> (CHOOSE p \in ps : p[1] = k)[2]]

RECURSIVE JoinStrings(_)
JoinStrings(ss) ==
  IF ss = <<>> THEN <<>>
  ELSE IF Len(ss) = 1 THEN ss[1]
  ELSE ss[1] \o <<",">> \o JoinStrings(Tail(ss))

RECURSIVE Stringify(_)
\* the template literal `${v}`
Stringify(v) ==
  CASE v.t = "str" -> v.s
    [] v.t = "num" -> <<ToString(v.n)>>
    [] v.t = "bool" -> IF v.b THEN <<"true">> ELSE <<"false">>
    [] v.t = "null" -> <<"null">>
    [] v.t = "arr" -> JoinStrings([i \in 1..Len(v.a) |->
                        IF v.a[i].t = "null" THEN <<>> ELSE Stringify(v.a[i])])
    [] OTHER -> <<"[object Object]">>

\* FlatPayload without the conversion of the values
FlatPayload_noStringify(v) == JObj(Flatten(v))

\* the flattened payload with every value converted to a string
FlatPayload(v) ==
  LET flat == Flatten(v)
  IN JObj([k \in DOMAIN flat |-> JStr(Stringify(flat[k]))])

(***************************************************************************)
(* URLs                                                                    *)
(***************************************************************************)
Schemes == {"http", "https"}

\* parseURL of whatwg-url: a record with the scheme, or null (ok = FALSE)
ParseURL(u) ==
  IF Len(u) >= 2 /\ u[1] \in Schemes /\ u[2] = ":"
  THEN [ok |-> TRUE, scheme |-> u[1]]
  ELSE [ok |-> FALSE, scheme |-> ""]

(***************************************************************************)
(* Inputs of one invocation                                                *)
(***************************************************************************)
Q == "\""

\* a process.env entry: undefined, or a string
Undef == [defined |-> FALSE, s |-> <<>>]
Def(s) == [defined |-> TRUE, s |-> s]

\* the value of the expression  a || b || ''  over two env entries
OrElse(a, b) == IF a.s # <<>> THEN a.s ELSE b.s

TokenEnv == {Undef, Def(<<>>), Def(<<"xoxb">>)}

WebhookUrlEnv ==
  {Undef, Def(<<>>), Def(<<"https", ":", "//hooks">>),
   Def(<<"http", ":", "//hooks">>), Def(<<"hooks">>)}

WebhookTypeEnv ==
  {Undef, Def(<<>>), Def(<<"INCOMING_WEBHOOK">>), Def(<<"incoming_webhook">>),
   Def(<<"Workflow_Trigger">>), Def(<<"other">>)}

\* the environments of an invocation; with a token the webhook settings are
\* never used again, so two settings are kept there: none, and a URL with a type
EnvInputs ==
  { e \in [tok : TokenEnv, url : WebhookUrlEnv, wt : WebhookTypeEnv] :
      (e.tok.s # <<>>) =>
         \/ e.url = Undef /\ e.wt = Undef
         \/ e.url = Def(<<"https", ":", "//hooks">>) /\ e.wt = Def(<<"incoming_webhook">>) }

ProxyEnv ==
  {Undef, Def(<<"http", ":", "//proxy">>), Def(<<"https", ":", "//proxy">>),
   Def(<<"proxy">>)}

InlineObject == <<"{", Q, "text", Q, ":", Q, "h", "i", Q, "}">>
InlineNested ==
  <<"{", Q, "channel", Q, ":", Q, "X", Q, ",", Q, "ts", Q, ":", Q, "9", Q, ",",
    Q, "a", Q, ":", "{", Q, "b", Q, ":", "1", ",",
    Q, "c", Q, ":", "[", "2", ",", "3", "]", "}", "}">>
InlineMalformed == <<"{", Q, "text", Q>>

\* inline payload texts: absent, objects (one with the keys channel and ts
\* and a nested value), falsy JSON values, and malformed texts
PayloadTexts ==
  { <<>>,
    InlineObject,
    InlineNested,
    <<"null">>, <<"0">>, <<"false">>, <<Q, Q>>,
    InlineMalformed,
    <<"h", "i">> }

\* payload file contents: empty, plain JSON, templates, malformed text
FileTexts ==
  { <<>>,
    <<"{", Q, "text", Q, ":", Q, "f", Q, "}">>,
    <<"{", Q, "ref", Q, ":", Q, "${{", " ", "github.ref", " ", "}}", Q, "}">>,
    <<"{", Q, "q", Q, ":", Q, "${{", "env.QUOTE", "}}", Q, "}">>,
    <<"${{", "env.EMPTY", "}}">>,
    <<"{", "{">> }

FilePaths == {<<>>, <<"p.json">>}

\* the payload inputs of an invocation: every inline text without a file path,
\* two inline texts together with a file path, and a file path alone
PayloadInputs ==
  { i \in [payload : PayloadTexts, path : FilePaths, parsed : BOOLEAN] :
      \/ i.payload = <<>> /\ (i.path = <<>> => ~i.parsed)
      \/ i.payload # <<>> /\ i.path = <<>> /\ ~i.parsed
      \/ i.payload \in {InlineObject, InlineMalformed} /\ i.path # <<>> /\ i.parsed }

Messages == {<<>>, <<"m">>}

UpdateTimestamps == {<<>>, <<"1.0">>}

ChanAlphabet == {"A", ",", " "}

\* the most entries a channel-id input splits into
MaxCalls == MaxChanLen + 1

\* every channel-id input of at most MaxChanLen lexemes
ChannelInputs == UNION {[1..n -> ChanAlphabet] : n \in 0..MaxChanLen}

\* github.context.payload, the event that triggered the workflow
EventPayloads ==
  { JObj(EmptyFields),
    JObj([ref |-> JStr(<<"m", "a", "i", "n">>)]),
    JObj([ref |-> JStr(<<"m", "a", "i", "n">>),
          repo |-> JObj([id |-> JNum(1), tags |-> JArr(<<JStr(<<"x">>)>>)])]) }

\* core.getInput of @actions/core: the input with surrounding blanks removed
GetInput(s) == Trim(s)

(***************************************************************************)
(* Messages of the errors thrown by slackSend                              *)
(***************************************************************************)
ConfigurationError == <<"Need to provide at least one botToken or webhookUrl">>
PayloadFileError(path) ==
  <<"The payload-file-path may be incorrect. Failed to load the file: ">> \o path
InvalidPayloadError == <<"Need to provide valid JSON payload">>
EmptyChannelError ==
  <<"Channel ID is required to run this action. An empty one has been provided">>
EmptyContentError ==
  <<"Missing message content, please input a valid payload or message to send. No Message has been send.">>
ChatError(i) == <<"chat error ", ToString(i)>>
ResponseData == <<"err.response.data">>
ErrorMessage == <<"err.message">>

SLACK_WEBHOOK_TYPES ==
  [WORKFLOW_TRIGGER |-> <<"WORKFLOW_TRIGGER">>, INCOMING_WEBHOOK |-> <<"INCOMING_WEBHOOK">>]

(***************************************************************************)
(* State                                                                   *)
(***************************************************************************)
VARIABLES
  pc,                    \* position of slackSend: the await it is suspended at
  botToken,              \* process.env.SLACK_BOT_TOKEN
  webhookUrl,            \* process.env.SLACK_WEBHOOK_URL
  webhookTypeEnv,        \* process.env.SLACK_WEBHOOK_TYPE
  webhookType,           \* the local webhookType
  inlinePayload,         \* the input payload, as read
  payload,               \* the local payload: a text, then the parsed value
  payloadFilePath,       \* the input payload-file-path
  payloadFilePathParsed, \* the input payload-file-path-parsed
  fileReads,             \* paths given to fs.readFile so far
  readState,             \* per fs.readFile call: "inflight", "resolved", "rejected"
  message,               \* the input slack-message
  channelIds,            \* the input channel-id
  updateTs,              \* the input update-ts
  chatOps,               \* chat.update / chat.postMessage calls issued
  opState,               \* per call: "inflight", "resolved" or "rejected"
  lastResolved,          \* the call whose resolution assigned webResponse last
  webResponse,           \* the local webResponse
  httpsProxy,            \* the local httpsProxy of the webhook branch
  posts,                 \* axios.post calls issued
  postState,             \* per axios.post call: "inflight", "resolved", or how
                         \* it rejected: "rejected with response", "rejected"
  outputs,               \* core.setOutput calls, in order
  failures               \* core.setFailed calls, in order

vars ==
  <<pc, botToken, webhookUrl, webhookTypeEnv, webhookType, inlinePayload, payload,
    payloadFilePath, payloadFilePathParsed, fileReads, readState, message,
    channelIds, updateTs, chatOps, opState, lastResolved, webResponse,
    httpsProxy, posts, postState, outputs, failures>>

envVars == <<botToken, webhookUrl, webhookTypeEnv, webhookType>>
fileVars == <<inlinePayload, payloadFilePath, payloadFilePathParsed, fileReads>>
inputVars == <<fileVars, payload, readState>>
tokenVars ==
  <<message, channelIds, updateTs, chatOps, opState, lastResolved, webResponse>>
webhookVars == <<httpsProxy, posts, postState>>

\* the local payload while it is still a string
Text(t) == [k |-> "text", text |-> t, val |-> JNull]
\* the local payload once JSON.parse has replaced it
Json(v) == [k |-> "json", text |-> <<>>, val |-> v]

\* JavaScript truthiness of the local payload
PayloadTruthy(p) == IF p.k = "text" THEN p.text # <<>> ELSE Truthy(p.val)

\* the fields copied by ...(payload || {})
PayloadFields(p) ==
  IF PayloadTruthy(p)
  THEN (IF p.k = "text" THEN Spread(JStr(p.text)) ELSE Spread(p.val))
  ELSE EmptyFields

NoResponse ==
  [defined |-> FALSE, ok |-> FALSE, ts |-> <<>>, thread_ts |-> <<>>, channel |-> <<>>]

\* the responses the chat API may resolve call i with
Responses(i) ==
  { [defined |-> TRUE, ok |-> TRUE, ts |-> <<"ts", ToString(i)>>,
     thread_ts |-> th, channel |-> <<"CH", ToString(i)>>]
    : th \in {<<>>, <<"thread", ToString(i)>>} }
  \cup
  { [defined |-> TRUE, ok |-> FALSE, ts |-> <<>>, thread_ts |-> <<>>, channel |-> <<>>] }

Output(name, value) == [name |-> name, value |-> value]

\* (new Date()).toTimeString()
TimeString == <<"time">>

Init ==
  /\ pc = "start"
  /\ botToken = Undef
  /\ webhookUrl = Undef
  /\ webhookTypeEnv = Undef
  /\ webhookType = SLACK_WEBHOOK_TYPES.WORKFLOW_TRIGGER
  /\ inlinePayload = <<>>
  /\ payload = Text(<<>>)
  /\ payloadFilePath = <<>>
  /\ payloadFilePathParsed = FALSE
  /\ fileReads = <<>>
  /\ readState = <<>>
  /\ message = <<>>
  /\ channelIds = <<>>
  /\ updateTs = <<>>
  /\ chatOps = <<>>
  /\ opState = <<>>
  /\ lastResolved = 0
  /\ webResponse = NoResponse
  /\ httpsProxy = <<>>
  /\ posts = <<>>
  /\ postState = <<>>
  /\ outputs = <<>>
  /\ failures = <<>>

\* the outer catch: core.setFailed(error), and slackSend returns
SetFailed(error) ==
  /\ failures' = Append(failures, error)
  /\ pc' = "done"

(***************************************************************************)
(* Transport selection and payload resolution                              *)
(***************************************************************************)
\* NoCredentials without the length checks: only undefined counts as absent
NoCredentials_undefinedOnly(tok, url) == ~tok.defined /\ ~url.defined

\* neither a bot token nor a webhook URL is usable
NoCredentials(tok, url) ==
  (~tok.defined \/ Len(tok.s) <= 0) /\ (~url.defined \/ Len(url.s) <= 0)

\* the token branch is taken
TokenTransport(tok) == tok.defined /\ Len(tok.s) > 0

\* the condition of the else-if that guards the webhook branch
WebhookTransport(url) == url.defined /\ Len(url.s) > 0

\* UseWebhook with an if in place of the else-if
UseWebhook_noElse(tok, url) == WebhookTransport(url)

\* the webhook branch is taken: it is only tried when the token branch is not
UseWebhook(tok, url) == ~TokenTransport(tok) /\ WebhookTransport(url)

\* the webhook type: the default, or the upper-cased override when one is set
WebhookType(wt) ==
  IF wt.s # <<>> THEN ToUpperCase(wt.s) ELSE SLACK_WEBHOOK_TYPES.WORKFLOW_TRIGGER

\* slackSend starts: the environment is read and the credentials are checked
SelectTransport ==
  /\ pc = "start"
  /\ \E e \in EnvInputs :
       /\ botToken' = e.tok
       /\ webhookUrl' = e.url
       /\ webhookTypeEnv' = e.wt
       /\ webhookType' = WebhookType(e.wt)
       /\ IF NoCredentials(e.tok, e.url)
          THEN SetFailed(ConfigurationError)
          ELSE pc' = "inputs" /\ UNCHANGED failures
  /\ UNCHANGED <<inputVars, tokenVars, webhookVars, outputs>>

\* ReadsFile without the test of the inline payload
ReadsFile_pathOnly(path, text) == path # <<>>

\* the payload file is consulted
ReadsFile(path, text) == path # <<>> /\ text = <<>>

\* the payload inputs are read; the file read is started when it is needed
ReadInputs ==
  /\ pc = "inputs"
  /\ \E i \in PayloadInputs :
       /\ inlinePayload' = GetInput(i.payload)
       /\ payload' = Text(GetInput(i.payload))
       /\ payloadFilePath' = GetInput(i.path)
       /\ payloadFilePathParsed' = i.parsed
       /\ IF ReadsFile(GetInput(i.path), GetInput(i.payload))
          THEN /\ fileReads' = Append(fileReads, GetInput(i.path))
               /\ readState' = Append(readState, "inflight")
               /\ pc' = "reading"
          ELSE UNCHANGED <<fileReads, readState>> /\ pc' = "parse"
  /\ UNCHANGED <<envVars, tokenVars, webhookVars, outputs, failures>>

\* the file text, with the context variables replaced when asked for
FilePayload(text, parsed) == IF parsed THEN MarkUp(ReplaceAll(text)) ELSE text

\* fs.readFile resolves with the text of the file
ReadFileResolves ==
  /\ pc = "reading"
  /\ \E text \in FileTexts :
       payload' = Text(FilePayload(text, payloadFilePathParsed))
  /\ readState' = [readState EXCEPT ![Len(readState)] = "resolved"]
  /\ pc' = "parse"
  /\ UNCHANGED <<envVars, fileVars, tokenVars, webhookVars, outputs, failures>>

\* fs.readFile rejects: the file cannot be read
ReadFileRejects ==
  /\ pc = "reading"
  /\ readState' = [readState EXCEPT ![Len(readState)] = "rejected"]
  /\ SetFailed(PayloadFileError(payloadFilePath))
  /\ UNCHANGED <<envVars, fileVars, payload, tokenVars, webhookVars, outputs>>

\* the texts that can reach JSON.parse: the inline ones and the file ones
PayloadStrings ==
  {GetInput(i.payload) : i \in PayloadInputs}
    \cup {FilePayload(text, parsed) : text \in FileTexts, parsed \in BOOLEAN}

\* JSON.parse of each of them, computed once
ParseOf == [text \in PayloadStrings |-> JSONParse(text)]

\* a non-empty payload text is replaced by its parse
ParsePayload ==
  /\ pc = "parse"
  /\ IF PayloadTruthy(payload)
     THEN IF ParseOf[payload.text].ok
          THEN /\ payload' = Json(ParseOf[payload.text].val)
               /\ pc' = "dispatch"
               /\ UNCHANGED failures
          ELSE SetFailed(InvalidPayloadError) /\ UNCHANGED payload
     ELSE pc' = "dispatch" /\ UNCHANGED <<payload, failures>>
  /\ UNCHANGED <<envVars, fileVars, readState, tokenVars, webhookVars, outputs>>

(***************************************************************************)
(* Token transport                                                         *)
(***************************************************************************)
\* HasContent without the content check
HasContent_always(msg, p) == TRUE

\* there is something to send
HasContent(msg, p) == Len(msg) > 0 \/ PayloadTruthy(p)

\* ChatCall with the payload spread first, so that the named fields win
ChatCall_payloadFirst(ts, channelId, msg, p) ==
  IF ts # <<>>
  THEN [method |-> "chat.update",
        args |-> [ts |-> JStr(ts), channel |-> JStr(Trim(channelId)), text |-> JStr(msg)]
                 @@ PayloadFields(p)]
  ELSE [method |-> "chat.postMessage",
        args |-> [channel |-> JStr(Trim(channelId)), text |-> JStr(msg)]
                 @@ PayloadFields(p)]

\* the call made for one entry of the channel list
ChatCall(ts, channelId, msg, p) ==
  IF ts # <<>>
  THEN [method |-> "chat.update",
        args |-> PayloadFields(p) @@
                 [ts |-> JStr(ts), channel |-> JStr(Trim(channelId)), text |-> JStr(msg)]]
  ELSE [method |-> "chat.postMessage",
        args |-> PayloadFields(p) @@
                 [channel |-> JStr(Trim(channelId)), text |-> JStr(msg)]]

\* the token branch up to the await of Promise.all
DispatchToken ==
  /\ pc = "dispatch"
  /\ TokenTransport(botToken)
  /\ \E m \in Messages, c \in ChannelInputs, ts \in UpdateTimestamps :
       LET msg == GetInput(m)
           chans == GetInput(c)
           entries == SplitComma(chans)
       IN /\ message' = msg
          /\ channelIds' = chans
          /\ IF Len(chans) <= 0
             THEN /\ SetFailed(EmptyChannelError)
                  /\ UNCHANGED <<updateTs, chatOps, opState>>
             ELSE IF HasContent(msg, payload)
             THEN /\ updateTs' = GetInput(ts)
                  /\ chatOps' = [i \in 1..Len(entries) |->
                                   ChatCall(GetInput(ts), entries[i], msg, payload)]
                  /\ opState' = [i \in 1..Len(entries) |-> "inflight"]
                  /\ pc' = "fanout"
                  /\ UNCHANGED failures
             ELSE /\ SetFailed(EmptyContentError)
                  /\ UNCHANGED <<updateTs, chatOps, opState>>
  /\ UNCHANGED <<envVars, inputVars, lastResolved, webResponse, webhookVars, outputs>>

\* ResponseOutputs without the thread_ts fallback test: thread_ts is always ts
ResponseOutputs_noThread(resp) ==
  IF resp.defined /\ resp.ok
  THEN << Output("ts", resp.ts),
          Output("thread_ts", resp.ts),
          Output("channel_id", resp.channel) >>
  ELSE <<>>

\* the outputs set after Promise.all from the last value of webResponse
ResponseOutputs(resp) ==
  IF resp.defined /\ resp.ok
  THEN << Output("ts", resp.ts),
          Output("thread_ts", IF resp.thread_ts # <<>> THEN resp.thread_ts ELSE resp.ts),
          Output("channel_id", resp.channel) >>
  ELSE <<>>

\* AllFulfilled as Promise.race would have it: the first resolution fulfils
AllFulfilled_first(i) == TRUE

\* Promise.all fulfils when call i resolves: every other call has resolved
AllFulfilled(i) == \A j \in DOMAIN opState : j # i => opState[j] = "resolved"

\* call i resolves: webResponse is assigned, and when this fulfils Promise.all
\* slackSend resumes, sets the outputs and the time, and returns
ChatResolves(i) ==
  /\ i \in DOMAIN opState
  /\ opState[i] = "inflight"
  /\ \E resp \in Responses(i) :
       /\ opState' = [opState EXCEPT ![i] = "resolved"]
       /\ lastResolved' = i
       /\ webResponse' = resp
       /\ IF pc = "fanout" /\ AllFulfilled(i)
          THEN /\ outputs' = outputs \o ResponseOutputs(resp)
                               \o <<Output("time", TimeString)>>
               /\ pc' = "done"
          ELSE UNCHANGED <<outputs, pc>>
  /\ UNCHANGED <<envVars, inputVars, message, channelIds, updateTs, chatOps,
                 webhookVars, failures>>

\* PromiseAllPending if every rejection reached the outer handler
PromiseAllPending_always == TRUE

\* PromiseAllPending if no rejection reached the outer handler
PromiseAllPending_never == FALSE

\* Promise.all is still pending when a call rejects
PromiseAllPending == pc = "fanout"

\* call i rejects: the first rejection rejects Promise.all and is caught by the
\* outer handler; later ones find Promise.all settled
ChatRejects(i) ==
  /\ i \in DOMAIN opState
  /\ opState[i] = "inflight"
  /\ opState' = [opState EXCEPT ![i] = "rejected"]
  /\ IF PromiseAllPending
     THEN SetFailed(ChatError(i))
     ELSE UNCHANGED <<failures, pc>>
  /\ UNCHANGED <<envVars, inputVars, message, channelIds, updateTs, chatOps,
                 lastResolved, webResponse, webhookVars, outputs>>

(***************************************************************************)
(* Webhook transport                                                       *)
(***************************************************************************)
\* the payload posted: the event payload when none was given
WebhookPayload(p, event) == IF ~PayloadTruthy(p) THEN event ELSE p.val

\* the body posted for the webhook type
ShapedPayload(v, type) ==
  IF type = SLACK_WEBHOOK_TYPES.WORKFLOW_TRIGGER THEN FlatPayload(v) ELSE v

\* AxiosOpts without the test of the proxy's scheme
AxiosOpts_anyProxy(url, proxyUrl) ==
  IF ParseURL(url).ok /\ ParseURL(url).scheme = "https" /\ proxyUrl # <<>>
  THEN [httpsAgent |-> proxyUrl, proxy |-> "false"]
  ELSE [httpsAgent |-> <<>>, proxy |-> "default"]

\* the axios options: a tunnelling agent for an https URL behind an http proxy;
\* a URL that does not parse throws inside the try and leaves the options empty
AxiosOpts(url, proxyUrl) ==
  IF /\ ParseURL(url).ok
     /\ ParseURL(url).scheme = "https"
     /\ proxyUrl # <<>>
     /\ ParseURL(proxyUrl).ok
     /\ ParseURL(proxyUrl).scheme = "http"
  THEN [httpsAgent |-> proxyUrl, proxy |-> "false"]
  ELSE [httpsAgent |-> <<>>, proxy |-> "default"]

\* the webhook branch up to the await of axios.post
DispatchWebhook ==
  /\ pc = "dispatch"
  /\ UseWebhook(botToken, webhookUrl)
  /\ \E event \in EventPayloads, upper \in ProxyEnv, lower \in ProxyEnv :
       LET body == ShapedPayload(WebhookPayload(payload, event), webhookType)
       IN /\ payload' = Json(body)
          /\ httpsProxy' = OrElse(upper, lower)
          /\ posts' = Append(posts, [url |-> webhookUrl.s, data |-> body,
                                     opts |-> AxiosOpts(webhookUrl.s, OrElse(upper, lower))])
          /\ postState' = Append(postState, "inflight")
  /\ pc' = "posting"
  /\ UNCHANGED <<envVars, fileVars, readState, tokenVars, outputs, failures>>

\* axios.post resolves: the time is set and slackSend returns
PostResolves ==
  /\ pc = "posting"
  /\ postState' = [postState EXCEPT ![Len(postState)] = "resolved"]
  /\ outputs' = Append(outputs, Output("time", TimeString))
  /\ pc' = "done"
  /\ UNCHANGED <<envVars, inputVars, tokenVars, httpsProxy, posts, failures>>

\* PostFailure that ignores the response of the error
PostFailure_messageOnly(hasResponse) == ErrorMessage

\* the detail reported for a failed POST
PostFailure(hasResponse) == IF hasResponse THEN ResponseData ELSE ErrorMessage

\* AfterPostFailure without the return: the time is set as on success
AfterPostFailure_noReturn == <<Output("time", TimeString)>>

\* the outputs set after a failed POST: none, the handler returns at once
AfterPostFailure == <<>>

\* axios.post rejects: the failure is reported and slackSend returns
PostRejects ==
  /\ pc = "posting"
  /\ \E hasResponse \in BOOLEAN :
       /\ postState' = [postState EXCEPT ![Len(postState)] =
                          IF hasResponse THEN "rejected with response" ELSE "rejected"]
       /\ SetFailed(PostFailure(hasResponse))
  /\ outputs' = outputs \o AfterPostFailure
  /\ UNCHANGED <<envVars, inputVars, tokenVars, httpsProxy, posts>>

Next ==
  \/ SelectTransport
  \/ ReadInputs
  \/ ReadFileResolves
  \/ ReadFileRejects
  \/ ParsePayload
  \/ DispatchToken
  \/ DispatchWebhook
  \/ \E i \in DOMAIN opState : ChatResolves(i)
  \/ \E i \in DOMAIN opState : ChatRejects(i)
  \/ PostResolves
  \/ PostRejects

Spec == Init /\ [][Next]_vars

\* the event loop runs every handler that is ready, and every started file
\* read and network call settles: a step is taken whenever one is possible
FairSpec == Spec /\ WF_vars(Next)

TypeOK ==
  /\ pc \in {"start", "inputs", "reading", "parse", "dispatch", "fanout", "posting", "done"}
  /\ Len(opState) = Len(chatOps)
  /\ lastResolved \in 0..Len(chatOps)
  /\ Len(postState) = Len(posts)
  /\ Len(readState) = Len(fileReads)

(***************************************************************************)
(* Properties                                                              *)
(***************************************************************************)
\* the network operations issued so far
NoNetworkOps == chatOps = <<>> /\ posts = <<>>

\* the names of the outputs set so far
OutputNames == {outputs[i].name : i \in DOMAIN outputs}

\* C1: when the token and the webhook URL are both absent or empty, slackSend
\* ends with the ConfigurationError failure and has issued no network
\* operation, read no payload file and set no output.
C1_NoCredentialsFailsFirst ==
  (pc # "start" /\ botToken.s = <<>> /\ webhookUrl.s = <<>>) =>
     /\ pc = "done"
     /\ failures = <<ConfigurationError>>
     /\ NoNetworkOps
     /\ fileReads = <<>>
     /\ outputs = <<>>

\* an invocation with an empty token and no webhook URL has been rejected
C1_Witness ==
  /\ pc = "done"
  /\ botToken = Def(<<>>)
  /\ webhookUrl = Undef
  /\ failures = <<ConfigurationError>>

\* C2: with a non-empty token no webhook POST is ever issued, whatever the
\* webhook URL and the webhook type are; a POST is issued only when the token
\* is absent or empty and the webhook URL is non-empty, and chat calls only
\* when the token is non-empty.
C2_TokenTakesPriority ==
  /\ botToken.s # <<>> => posts = <<>>
  /\ posts # <<>> => (botToken.s = <<>> /\ webhookUrl.s # <<>>)
  /\ chatOps # <<>> => botToken.s # <<>>

\* chat calls were issued although a webhook URL and a webhook type were set
C2_Witness ==
  /\ botToken.s # <<>>
  /\ webhookUrl.s # <<>>
  /\ webhookType = SLACK_WEBHOOK_TYPES.INCOMING_WEBHOOK
  /\ chatOps # <<>>
  /\ pc = "done"

\* the entries of the channel list
Entries == SplitComma(channelIds)

\* the method called for every entry
ChatMethod == IF updateTs # <<>> THEN "chat.update" ELSE "chat.postMessage"

\* C3 as claimed: one call per entry of the channel list, an update when
\* update-ts is present and a post otherwise, each carrying the entry's own
\* trimmed channel id and a text (the message text, or the text field of the
\* payload) together with the other payload fields, for every payload, and
\* all of them issued even when a sibling has failed.
C3_EntryChannelAlwaysCarried ==
  chatOps # <<>> =>
     /\ Len(chatOps) = Len(Entries)
     /\ \A i \in DOMAIN chatOps :
          LET f == PayloadFields(payload)
              a == chatOps[i].args
          IN /\ chatOps[i].method = ChatMethod
             /\ a.channel = JStr(Trim(Entries[i]))
             /\ \/ a.text = JStr(message)
                \/ "text" \in DOMAIN f /\ a.text = f.text
             /\ \A k \in DOMAIN f \ {"channel", "text", "ts"} : a[k] = f[k]

\* C3 amended: one call per entry, an update when update-ts is present and a
\* post otherwise, all issued even when a sibling has failed; each carries
\* every top-level payload field, and the entry's trimmed channel id, the
\* message text and the update timestamp only where the payload has no field
\* named channel, text or ts.
C3_PayloadFieldsTakePrecedence ==
  chatOps # <<>> =>
     /\ Len(chatOps) = Len(Entries)
     /\ \A i \in DOMAIN chatOps :
          LET f == PayloadFields(payload)
              a == chatOps[i].args
          IN /\ chatOps[i].method = ChatMethod
             /\ DOMAIN a = DOMAIN f \cup {"channel", "text"}
                             \cup (IF updateTs # <<>> THEN {"ts"} ELSE {})
             /\ \A k \in DOMAIN f : a[k] = f[k]
             /\ "channel" \notin DOMAIN f => a.channel = JStr(Trim(Entries[i]))
             /\ "text" \notin DOMAIN f => a.text = JStr(message)
             /\ (updateTs # <<>> /\ "ts" \notin DOMAIN f) => a.ts = JStr(updateTs)

\* two updates were issued with a payload that has a channel field, and one of
\* them has failed
C3_Witness ==
  /\ Len(chatOps) = 2
  /\ updateTs # <<>>
  /\ "channel" \in DOMAIN PayloadFields(payload)
  /\ \E i \in DOMAIN opState : opState[i] = "rejected"

\* C4 as claimed: no output and no failure signal while a chat call of the
\* invocation is still in flight.
C4_ReportOnlyAfterAllSettled ==
  (outputs # <<>> \/ failures # <<>>) =>
     \A i \in DOMAIN opState : opState[i] # "inflight"

\* C4 amended: outputs are set only after every chat call has resolved; the
\* failure signal of the token transport is emitted as soon as one call has
\* rejected, whether or not sibling calls are still in flight.
C4_OutputsAfterAllResolved ==
  /\ (outputs # <<>> /\ chatOps # <<>>) =>
        \A i \in DOMAIN opState : opState[i] = "resolved"
  /\ (failures # <<>> /\ chatOps # <<>>) =>
        \E i \in DOMAIN opState : opState[i] = "rejected"

\* the outputs were set after three calls resolved
C4_Witness ==
  /\ Len(chatOps) = 3
  /\ \A i \in DOMAIN opState : opState[i] = "resolved"
  /\ "time" \in OutputNames

\* C5: when several chat calls all resolve and the last response is ok, the
\* outputs ts, thread_ts and channel_id all come from the response of the call
\* that resolved last; thread_ts is its thread_ts when it has one and its ts
\* otherwise.
C5_OutputsFromLastResolved ==
  (/\ Len(chatOps) >= 2
   /\ \A i \in DOMAIN opState : opState[i] = "resolved"
   /\ webResponse.ok) =>
     LET n == ToString(lastResolved)
     IN outputs =
          << Output("ts", <<"ts", n>>),
             Output("thread_ts",
                    IF webResponse.thread_ts # <<>> THEN <<"thread", n>> ELSE <<"ts", n>>),
             Output("channel_id", <<"CH", n>>),
             Output("time", TimeString) >>

\* three calls resolved, the second of the list last, with a thread_ts
C5_Witness ==
  /\ Len(chatOps) = 3
  /\ \A i \in DOMAIN opState : opState[i] = "resolved"
  /\ lastResolved = 2
  /\ webResponse.ok
  /\ webResponse.thread_ts # <<>>
  /\ pc = "done"

\* C6 as claimed: when every chat call has settled, some by resolving and
\* some by rejecting, the invocation has set its outputs and the time and has
\* emitted no failure signal, as when all resolve.
C6_MixLooksLikeSuccess ==
  (/\ \A i \in DOMAIN opState : opState[i] # "inflight"
   /\ \E i \in DOMAIN opState : opState[i] = "resolved"
   /\ \E i \in DOMAIN opState : opState[i] = "rejected") =>
     /\ failures = <<>>
     /\ "time" \in OutputNames

\* C6 amended: per-channel failures are not individually surfaced, but a
\* failure is distinguished from success: as soon as a chat call has rejected
\* the invocation has ended with exactly one failure signal, that of one of
\* the rejected calls, and no output, however many calls reject or resolve.
C6_OneFailureForAnyRejection ==
  (\E i \in DOMAIN opState : opState[i] = "rejected") =>
     /\ pc = "done"
     /\ Len(failures) = 1
     /\ \E i \in DOMAIN opState : opState[i] = "rejected" /\ failures[1] = ChatError(i)
     /\ outputs = <<>>

\* of three calls two rejected and one resolved
C6_Witness ==
  /\ Len(chatOps) = 3
  /\ Cardinality({i \in DOMAIN opState : opState[i] = "rejected"}) = 2
  /\ \E i \in DOMAIN opState : opState[i] = "resolved"
  /\ webResponse.ok

\* C7: the failure signal and the outputs are mutually exclusive: in no state
\* has an invocation both emitted a failure signal and set an output, on the
\* webhook path and on the token path alike.
C7_FailureExcludesOutputs == failures # <<>> => outputs = <<>>

\* a chat call rejected, a sibling resolved with an ok response, none is left
C7_Witness ==
  /\ pc = "done"
  /\ failures # <<>>
  /\ \A i \in DOMAIN opState : opState[i] # "inflight"
  /\ \E i \in DOMAIN opState : opState[i] = "resolved"
  /\ webResponse.ok
  /\ outputs = <<>>

\* the payload was resolved: slackSend got past the payload checks
PayloadResolved ==
  \/ pc \in {"dispatch", "fanout", "posting"}
  \/ /\ pc = "done"
     /\ failures # <<>> =>
          failures[1] \notin {InvalidPayloadError, PayloadFileError(payloadFilePath)}

\* the token branch has run its checks
TokenDispatched == botToken.s # <<>> /\ pc \in {"fanout", "done"} /\ PayloadResolved

\* C8: in the token transport chat calls are issued only with a non-empty
\* channel input and content; an empty channel input fails with
\* EmptyChannelError whatever the message and the payload are, a non-empty one
\* with an empty message and no payload fails with EmptyContentError, and in
\* both cases no network operation is issued.
C8_ChannelThenContent ==
  /\ chatOps # <<>> =>
       (channelIds # <<>> /\ (message # <<>> \/ PayloadTruthy(payload)))
  /\ (TokenDispatched /\ channelIds = <<>>) =>
       (failures = <<EmptyChannelError>> /\ pc = "done" /\ NoNetworkOps)
  /\ (TokenDispatched /\ channelIds # <<>> /\ message = <<>> /\ ~PayloadTruthy(payload)) =>
       (failures = <<EmptyContentError>> /\ pc = "done" /\ NoNetworkOps)

\* an empty channel input was rejected although a message and a payload were given
C8_Witness ==
  /\ TokenDispatched
  /\ channelIds = <<>>
  /\ message # <<>>
  /\ PayloadTruthy(payload)
  /\ failures = <<EmptyChannelError>>

\* the number of times the output time was set
TimeCount == Cardinality({i \in DOMAIN outputs : outputs[i].name = "time"})

\* C9: provided every file read and network call settles, every invocation
\* ends, and it ends either without a failure signal and with the time set
\* exactly once, or with a failure signal and without the time.
C9_EndsWithOneOutcome ==
  /\ <>(pc = "done")
  /\ [](pc = "done" =>
          \/ failures = <<>> /\ TimeCount = 1
          \/ failures # <<>> /\ TimeCount = 0)

\* a webhook invocation ended with the time set
C9_Witness ==
  /\ pc = "done"
  /\ posts # <<>>
  /\ failures = <<>>
  /\ TimeCount = 1

\* C10 as claimed: when the text given as payload (inline, or read from the
\* file and substituted) is not valid JSON, or the file cannot be read, the
\* invocation has failed and no network operation was issued.
C10_MalformedPayloadNeverDelivered ==
  (/\ pc \notin {"start", "inputs", "reading", "parse"}
   /\ payload.k = "text"
   /\ payload.text # <<>> \/ fileReads # <<>>
   /\ ~JSONParse(payload.text).ok) =>
     (NoNetworkOps /\ (pc = "done" => failures # <<>>))

\* C11: exactly one payload source is consulted. The file is read, once, only
\* when the inline payload is empty and a path is given; with a non-empty
\* inline payload and a path the file is never read, no file error is
\* signalled, and the resolved payload is the parse of the inline text.
C11_OnePayloadSource ==
  /\ Len(fileReads) <= 1
  /\ fileReads # <<>> <=> (inlinePayload = <<>> /\ payloadFilePath # <<>>)
  /\ (inlinePayload # <<>> /\ payloadFilePath # <<>>) =>
       /\ fileReads = <<>>
       /\ \A i \in DOMAIN failures : failures[i] # PayloadFileError(payloadFilePath)
       /\ (pc = "dispatch" \/ TokenDispatched) =>
            payload = Json(ParseOf[inlinePayload].val)

\* an inline payload given together with a file path was delivered, unread file
C11_Witness ==
  /\ inlinePayload = InlineObject
  /\ payloadFilePath # <<>>
  /\ fileReads = <<>>
  /\ NoNetworkOps = FALSE
  /\ payload = Json(ParseOf[InlineObject].val)
  /\ failures = <<>>

\* C12: the body posted for the kind WORKFLOW_TRIGGER is a single-level
\* mapping whose values are all strings; nested objects and arrays are
\* replaced by dot-joined path keys ({a: {b: 1, c: [2, 3]}} yields a.b -> "1",
\* a.c.0 -> "2", a.c.1 -> "3") and a flat payload keeps its keys.
C12_WorkflowBodyIsFlat ==
  (posts # <<>> /\ webhookType = SLACK_WEBHOOK_TYPES.WORKFLOW_TRIGGER) =>
    LET data == posts[1].data
    IN /\ data.t = "obj"
       /\ \A k \in DOMAIN data.f : data.f[k].t = "str"
       /\ inlinePayload = InlineNested =>
            data.f = ("channel" :> JStr(<<"X">>)) @@ ("ts" :> JStr(<<"9">>))
                       @@ ("a.b" :> JStr(<<"1">>))
                       @@ ("a.c.0" :> JStr(<<"2">>)) @@ ("a.c.1" :> JStr(<<"3">>))
       /\ inlinePayload = InlineObject =>
            data.f = [text |-> JStr(<<"h", "i">>)]

\* the nested inline payload was posted flattened
C12_Witness ==
  /\ posts # <<>>
  /\ webhookType = SLACK_WEBHOOK_TYPES.WORKFLOW_TRIGGER
  /\ inlinePayload = InlineNested
  /\ "a.c.1" \in DOMAIN posts[1].data.f

\* C13 as claimed: the event payload is substituted only in the webhook
\* transport and only when no payload was supplied. For every supplied inline
\* payload that is valid JSON (null, false, 0 and "" included) the posted body
\* is the supplied payload, shaped for the webhook type; and a chat call made
\* without any payload carries the channel, the message text and the
\* timestamp of an update only.
C13_EventPayloadOnlyWhenNothingSupplied ==
  /\ (posts # <<>> /\ inlinePayload # <<>>) =>
       posts[1].data = ShapedPayload(ParseOf[inlinePayload].val, webhookType)
  /\ (inlinePayload = <<>> /\ fileReads = <<>>) =>
       \A i \in DOMAIN chatOps :
          /\ DOMAIN chatOps[i].args \subseteq {"channel", "text", "ts"}
          /\ chatOps[i].args.text = JStr(message)

\* C14: when the webhook POST fails, the failure signal is the response body
\* if the error has a response and the error's message otherwise; in both
\* cases it is the only failure signal, the invocation has ended and the
\* time is not set.
C14_PostFailureSignal ==
  \A i \in DOMAIN postState :
     /\ postState[i] = "rejected with response" =>
          (failures = <<ResponseData>> /\ pc = "done" /\ TimeCount = 0)
     /\ postState[i] = "rejected" =>
          (failures = <<ErrorMessage>> /\ pc = "done" /\ TimeCount = 0)

\* a POST was rejected with a response and the response body was signalled
C14_Witness ==
  /\ postState = <<"rejected with response">>
  /\ failures = <<ResponseData>>
  /\ pc = "done"

\* C15: nothing is retried and a failed delivery is reported once: in every
\* invocation at most one POST is issued, the chat calls issued are one per
\* entry of the channel list, each settling at most once, and at most one
\* failure signal is emitted, however many chat calls are rejected.
C15_NothingRetried ==
  /\ Len(posts) <= 1
  /\ Len(chatOps) \in {0, Len(Entries)}
  /\ Len(opState) = Len(chatOps)
  /\ posts # <<>> => chatOps = <<>>
  /\ Len(failures) <= 1

\* every call of a fan-out of two or more was rejected, with one failure signal
C15_Witness ==
  /\ Len(chatOps) >= 2
  /\ \A i \in DOMAIN opState : opState[i] = "rejected"
  /\ Len(failures) = 1
  /\ pc = "done"

\* C16 as claimed: for the payload file the error follows the failing step: a
\* file that cannot be read fails with PayloadFileError naming the path, and a
\* file that was read, and substituted when asked for, but whose resulting
\* text is not valid JSON fails with InvalidPayloadError.
C16_FileErrorFollowsStep ==
  /\ readState = <<"rejected">> =>
       failures = <<PayloadFileError(payloadFilePath)>>
  /\ (/\ readState = <<"resolved">>
      /\ pc # "parse"
      /\ payload.k = "text"
      /\ ~ParseOf[payload.text].ok) =>
       failures = <<InvalidPayloadError>>

\* C17: in the webhook transport the shaping follows the kind: a supplied
\* payload is posted flattened and stringified when SLACK_WEBHOOK_TYPE is
\* absent, empty or WORKFLOW_TRIGGER in any letter case, and is posted
\* unchanged when it is INCOMING_WEBHOOK in any letter case or names neither
\* kind.
C17_ShapingFollowsKind ==
  (posts # <<>> /\ inlinePayload # <<>> /\ Truthy(ParseOf[inlinePayload].val)) =>
    LET v == ParseOf[inlinePayload].val
        data == posts[1].data
    IN IF webhookTypeEnv.s \in {<<>>, <<"WORKFLOW_TRIGGER">>, <<"workflow_trigger">>,
                                <<"Workflow_Trigger">>}
       THEN data = FlatPayload(v)
       ELSE data = v

\* a nested payload was posted unchanged under an override naming neither kind
C17_Witness ==
  /\ posts # <<>>
  /\ inlinePayload = InlineNested
  /\ webhookTypeEnv = Def(<<"other">>)
  /\ posts[1].data = ParseOf[InlineNested].val
  /\ posts[1].data # FlatPayload(ParseOf[InlineNested].val)

\* a nested payload was posted flattened under a mixed-case WORKFLOW_TRIGGER
C17_WitnessMixedCase ==
  /\ posts # <<>>
  /\ inlinePayload = InlineNested
  /\ webhookTypeEnv = Def(<<"Workflow_Trigger">>)
  /\ "a.b" \in DOMAIN posts[1].data.f

\* C18 as claimed: every chat call issued by the token transport carries a
\* non-empty, trimmed channel identifier; for every channel input either the
\* invocation fails with EmptyChannelError before any call or each issued
\* call's channel field is non-empty.
C18_ChannelFieldNonEmpty ==
  /\ (TokenDispatched /\ channelIds = <<>>) =>
       (failures = <<EmptyChannelError>> /\ chatOps = <<>>)
  /\ \A i \in DOMAIN chatOps :
       LET channel == chatOps[i].args.channel
       IN /\ channel.t = "str"
          /\ channel.s # <<>>
          /\ Trim(channel.s) = channel.s

\* the URL text u starts with the given scheme
HasScheme(u, scheme) == Len(u) >= 2 /\ u[1] = scheme /\ u[2] = ":"

\* C19: in the webhook transport the tunnelling agent is configured, and the
\* default proxy detection disabled, exactly when the webhook URL has the
\* scheme https and the proxy is non-empty with the scheme http; a proxy or
\* a webhook URL that does not parse produces no failure signal when the
\* options are built: the POST is still issued, without an agent.
C19_ProxyAgentConfiguration ==
  /\ posts # <<>> =>
       IF HasScheme(webhookUrl.s, "https") /\ HasScheme(httpsProxy, "http")
       THEN posts[1].opts = [httpsAgent |-> httpsProxy, proxy |-> "false"]
       ELSE posts[1].opts = [httpsAgent |-> <<>>, proxy |-> "default"]
  /\ (UseWebhook(botToken, webhookUrl) /\ pc \in {"posting", "done"} /\ PayloadResolved) =>
       /\ Len(posts) = 1
       /\ posts[1].url = webhookUrl.s
       /\ failures # <<>> => postState[1] \in {"rejected", "rejected with response"}

\* a POST was issued without an agent although the proxy does not parse
C19_Witness ==
  /\ posts # <<>>
  /\ HasScheme(webhookUrl.s, "https")
  /\ httpsProxy = <<"proxy">>
  /\ posts[1].opts.httpsAgent = <<>>
  /\ failures = <<>>

\* a POST to an https URL was issued through an agent for an http proxy
C19_WitnessAgent ==
  /\ posts # <<>>
  /\ HasScheme(webhookUrl.s, "https")
  /\ HasScheme(httpsProxy, "http")
  /\ posts[1].opts.httpsAgent = httpsProxy
  /\ posts[1].opts.proxy = "false"

\* a POST was issued although the webhook URL does not parse
C19_WitnessBadUrl ==
  /\ posts # <<>>
  /\ webhookUrl.s = <<"hooks">>
  /\ HasScheme(httpsProxy, "http")
  /\ posts[1].opts.httpsAgent = <<>>
  /\ pc = "posting"

====
